---- MODULE Spec2Model ----
(***************************************************************************)
(* Voice-mode orchestration of jarvis-and-baymax: the VoiceMode component  *)
(* (src/components/VoiceMode.tsx) together with the hooks it drives:       *)
(* useVoiceRecognition, useTextToSpeech, useAndroidPermissions,            *)
(* usePhoneActions, useLocalAI and useLocalConversationHistory.            *)
(*                                                                         *)
(* The runtime is single threaded: every handler, promise continuation and *)
(* timer callback runs to completion and its state updates are batched     *)
(* into one render.  After a render React runs the effects; their updates  *)
(* make the next render, and so on until no effect changes anything.  A    *)
(* state of this module is a render; an action is one callback, or one     *)
(* pass of the effects (RunEffects), and no callback runs while a pass of  *)
(* the effects is due.  hapticImpact and                                   *)
(* hapticNotification return at once when the app is not native            *)
(* (useNativeCapabilities, `if (!isNative) return`), so awaiting them does *)
(* not let another event in; the awaits that do are those of               *)
(* checkAndExecute, processMessage, speak, getUserMedia, the permission    *)
(* queries and the timers.                                                 *)
(*                                                                         *)
(* Text is modelled as a sequence of tokens; "" is << >>.                  *)
(***************************************************************************)
EXTENDS Integers, Sequences, FiniteSets, TLC

VARIABLES
    voiceState,      \* VoiceMode useState<VoiceState>
    isMuted,         \* VoiceMode useState(false)
    lastResponse,    \* VoiceMode useState<string>("")
    processingRef,   \* VoiceMode useRef(false)
    messages,        \* useLocalConversationHistory messages
    turns,           \* the calls of handleVoiceResult, in call order
    isListening,     \* useVoiceRecognition isListening
    transcript,      \* useVoiceRecognition transcript
    recognitionRef,  \* recognitionRef.current: 0 = null, -1 = an instance
                     \* that has ended, else its index in sessions
    sessions,        \* the SpeechRecognition instances that have not ended,
                     \* in the order of their creation
    isSpeaking,      \* useTextToSpeech isSpeaking
    utterances,      \* per turn, the state of the utterance of its speak()
    mic,             \* permissions.microphone
    osMic,           \* the platform's own microphone permission
    checkInFlight,   \* a checkAllPermissions call awaits the platform
    reqPc,           \* position of the requestAllPermissions flow in flight
    reqMic,          \* results.microphone of that flow
    isRequestingPermissions,
    sttSupported,    \* 'SpeechRecognition' in window
    ttsSupported,    \* 'speechSynthesis' in window
    queryable,       \* navigator.permissions.query supports 'microphone'
    synth,           \* useTextToSpeech: voicesRef.current, what
                     \* speechSynthesis.getVoices() returns, and the voice of
                     \* the utterance created last (<< v >>, or << >> if
                     \* it was not set)
    gateway,         \* the chat function: its requests that have not been answered or whose
                     \* answer has not been taken yet, in the order of their arrival
    reqOverlap,      \* pc and results.microphone of a requestAllPermissions flow started
                     \* while the one of reqPc was in flight
    alarm,           \* an alarm command: its text, the PhoneAction that parsePhoneAction
                     \* has made of it and the hour and minute executeAction has handed to
                     \* setNativeAlarm (<< >> before)
    background       \* useBackgroundWakeWord: isBackgroundActive,
                     \* lastWakeTime, isNative, recognitionRef (as above);
                     \* sessions: its SpeechRecognition instances that have
                     \* not ended, each with the isBackgroundActive and the
                     \* lastWakeTime its handlers have closed over;
                     \* restarts: the restart timers pending, each with the
                     \* lastWakeTime its callback has closed over;
                     \* pending: the calls of handleWakeWordDetected that
                     \* await LocalNotifications.schedule;
                     \* now: Date.now(); wakeTimes: the times of the last
                     \* two triggers that handleWakeWordDetected accepted

vars == <<voiceState, isMuted, lastResponse, processingRef, messages, turns,
          isListening, transcript, recognitionRef, sessions, isSpeaking,
          utterances, mic, osMic, checkInFlight, reqPc, reqMic,
          isRequestingPermissions, sttSupported, ttsSupported, queryable,
          synth, gateway,
          reqOverlap,
          alarm, background>>

\* the whole state as one record, so that the handlers compose as functions
St == [voiceState |-> voiceState, isMuted |-> isMuted,
       lastResponse |-> lastResponse, processingRef |-> processingRef,
       messages |-> messages, turns |-> turns, isListening |-> isListening,
       transcript |-> transcript, recognitionRef |-> recognitionRef,
       sessions |-> sessions, isSpeaking |-> isSpeaking,
       utterances |-> utterances, mic |-> mic, osMic |-> osMic,
       checkInFlight |-> checkInFlight, reqPc |-> reqPc, reqMic |-> reqMic,
       isRequestingPermissions |-> isRequestingPermissions,
       sttSupported |-> sttSupported, ttsSupported |-> ttsSupported,
       queryable |-> queryable, synth |-> synth,
       gateway |-> gateway, reqOverlap |-> reqOverlap,
       alarm |-> alarm,
       background |-> background]

-----------------------------------------------------------------------------
\* Bounds of the model
MaxTurns == 1       \* calls of handleVoiceResult that pass its guard
MaxOverlap == 2     \* the same, where turns may overlap
MaxSessions == 2    \* SpeechRecognition instances alive at the same time
MaxWakes == 2       \* onWakeWord calls counted per instance
MaxRestarts == 2    \* restart timers of useBackgroundWakeWord pending
StartTime == 10000  \* Date.now() when useBackgroundWakeWord mounts, in ms
Tick == 1000        \* the step of the clock, in ms
MaxTime == 14000    \* the clock stops here

MaxExtra == 2       \* entries of a stored conversation beyond ContextCount
MaxVoices == 3      \* voices of the speech synthesis engine
MaxResults == 2     \* results in the result list of a SpeechRecognition

\* Program constants
MAX_MESSAGES == 100
ContextCount == 10  \* getMessagesForContext(10) in handleVoiceResult
WAKE_DEBOUNCE_MS == 3000

VoiceStates == {"idle", "permissions", "listening", "thinking", "speaking", "error"}
PermissionStatus == {"granted", "denied", "prompt", "unknown"}

-----------------------------------------------------------------------------
\* Text helpers

IsSpace(tok) == tok = " "

RECURSIVE TrimStart(_)
TrimStart(t) == IF t # << >> /\ IsSpace(Head(t)) THEN TrimStart(Tail(t)) ELSE t

RECURSIVE TrimEnd(_)
TrimEnd(t) ==
    IF t # << >> /\ IsSpace(t[Len(t)]) THEN TrimEnd(SubSeq(t, 1, Len(t) - 1)) ELSE t

\* String.prototype.trim
Trim(t) == TrimEnd(TrimStart(t))

LowerTok(tok) ==
    CASE tok = "Jarvis" -> "jarvis"
      [] tok = "Hey" -> "hey"
      [] OTHER -> tok

\* String.prototype.toLowerCase
ToLowerCase(t) == [i \in 1..Len(t) |-> LowerTok(t[i])]

\* String.prototype.includes
Includes(t, p) ==
    \E i \in 0..(Len(t) - Len(p)) : SubSeq(t, i + 1, i + Len(p)) = p

\* the wakeWords handed to useVoiceRecognition by VoiceMode
wakeWords == { <<"hey", " ", "jarvis">>, <<"hi", " ", "jarvis">>, <<"jarvis">>,
               <<"hey", " ", "buddy">>, <<"hi", " ", "buddy">>,
               <<"hey", " ", "max">>, <<"hi", " ", "max">> }

ContainsWakeWord(t) ==
    \E w \in wakeWords : Includes(ToLowerCase(t), ToLowerCase(w))

\* parsePhoneAction: the action type, or "null"
parsePhoneAction(t) ==
    LET lower == Trim(ToLowerCase(t))
    IN  IF Includes(lower, <<"set timer">>) THEN "timer" ELSE "null"

\* executeAction: the response text of the action
executeAction(action) ==
    IF action = "timer" THEN <<"Timer set">> ELSE << >>

localReply == <<"reply">>
fallbackResponse == <<"I had a small hiccup, but I'm here! Try again?">>

-----------------------------------------------------------------------------
\* Recognition result events: resultIndex (0-based) and the results list

Result(f, t) == [isFinal |-> f, transcript |-> t]

Events ==
    { [resultIndex |-> 0, results |-> <<Result(FALSE, <<"hi">>)>>],
      [resultIndex |-> 0, results |-> <<Result(FALSE, <<"Jarvis">>)>>],
      [resultIndex |-> 0, results |-> <<Result(TRUE, <<" ">>)>>],
      [resultIndex |-> 0, results |-> <<Result(TRUE, <<"set timer">>)>>],
      [resultIndex |-> 1, results |-> <<Result(TRUE, <<"Jarvis">>),
                                        Result(FALSE, <<"hi">>)>>] }

RECURSIVE Concat(_, _, _, _)
\* the for loop of recognition.onresult, for results i..Len (1-based)
Concat(results, i, final, acc) ==
    IF i > Len(results) THEN acc
    ELSE Concat(results, i + 1, final,
                IF results[i].isFinal = final
                THEN acc \o results[i].transcript ELSE acc)

\* finalTranscript || interimTranscript
CurrentTranscript(ev) ==
    LET finalTranscript == Concat(ev.results, ev.resultIndex + 1, TRUE, << >>)
        interimTranscript == Concat(ev.results, ev.resultIndex + 1, FALSE, << >>)
    IN  IF finalTranscript # << >> THEN finalTranscript ELSE interimTranscript

-----------------------------------------------------------------------------
\* useLocalConversationHistory

\* Array.prototype.slice(-n)
SliceLast(seq, n) ==
    IF Len(seq) <= n THEN seq ELSE SubSeq(seq, Len(seq) - n + 1, Len(seq))

\* getMessagesForContext(count) of a render whose messages are msgs
getMessagesForContext(msgs, count) ==
    LET last == SliceLast(msgs, count)
    IN  [i \in 1..Len(last) |->
            [role |-> last[i].role, content |-> last[i].content]]

\* clearHistory
clearHistory(s) == [s EXCEPT !.messages = << >>]

\* addMessage, if the first MAX_MESSAGES entries were kept
addMessageKeepsOldest(s, role, content) ==
    [s EXCEPT !.messages =
        SubSeq(Append(s.messages, [role |-> role, content |-> content]), 1,
               IF Len(s.messages) < MAX_MESSAGES THEN Len(s.messages) + 1
               ELSE MAX_MESSAGES)]

\* addMessage: append, keep the last MAX_MESSAGES
addMessage(s, role, content) ==
    [s EXCEPT !.messages =
        SliceLast(Append(s.messages, [role |-> role, content |-> content]),
                  MAX_MESSAGES)]

-----------------------------------------------------------------------------
\* useTextToSpeech

\* window.speechSynthesis.cancel(): every utterance handed to the engine is
\* removed; its error event (interrupted / canceled) is delivered later.
\* An utterance still waiting in the 150 ms timer of speak() is not known to
\* the engine.
SynthCancel(utts) ==
    [u \in DOMAIN utts |->
        IF utts[u] \in {"queued", "playing"} THEN "cancelled" ELSE utts[u]]

\* String.prototype.startsWith
StartsWith(t, p) == Len(p) <= Len(t) /\ SubSeq(t, 1, Len(p)) = p

\* Array.prototype.find, hits being the indexes of the elements that satisfy
\* the callback: << v >> for the first such element v, << >> for undefined
Find(list, hits) ==
    IF hits = {} THEN << >>
    ELSE << list[CHOOSE i \in hits : \A j \in hits : i <= j] >>

NamedVoice(v) ==
    \/ Includes(v.name, <<"Google US English">>)
    \/ Includes(v.name, <<"Google UK English">>)
    \/ Includes(v.name, <<"Samantha">>)
    \/ Includes(v.name, <<"Alex">>)

LocalEnglishVoice(v) == StartsWith(v.lang, <<"en">>) /\ v.localService

EnglishVoice(v) == StartsWith(v.lang, <<"en">>)

\* the three callbacks over a list
FindNamed(voices) ==
    Find(voices, {i \in DOMAIN voices : NamedVoice(voices[i])})

FindLocalEnglish(voices) ==
    Find(voices, {i \in DOMAIN voices : LocalEnglishVoice(voices[i])})

FindEnglish(voices) ==
    Find(voices, {i \in DOMAIN voices : EnglishVoice(voices[i])})

\* preferredVoice, if the first English voice were taken whether it is local
\* or not
preferredVoiceAnyEnglish(voices) ==
    IF FindNamed(voices) # << >> THEN FindNamed(voices)
    ELSE IF FindEnglish(voices) # << >> THEN FindEnglish(voices)
    ELSE IF voices # << >> THEN << voices[1] >> ELSE << >>

\* preferredVoice of speak(): find(..) || find(..) || find(..) || voices[0]
preferredVoice(voices) ==
    IF FindNamed(voices) # << >> THEN FindNamed(voices)
    ELSE IF FindLocalEnglish(voices) # << >>
         THEN FindLocalEnglish(voices)
    ELSE IF FindEnglish(voices) # << >> THEN FindEnglish(voices)
    ELSE IF voices # << >> THEN << voices[1] >> ELSE << >>

\* the part of the timer callback of speak() that sets utterance.voice
ChooseVoice(y) ==
    [y EXCEPT !.voice = preferredVoice(IF Len(y.voicesRef) > 0
                                       THEN y.voicesRef ELSE y.getVoices)]

\* loadVoices
loadVoices(y) ==
    IF Len(y.getVoices) > 0 THEN [y EXCEPT !.voicesRef = y.getVoices] ELSE y

\* an engine without voices
NoVoices == [voicesRef |-> << >>, getVoices |-> << >>, voice |-> << >>]

\* stop
stopSpeaking(s) ==
    IF s.ttsSupported
    THEN [s EXCEPT !.utterances = SynthCancel(s.utterances),
                   !.isSpeaking = FALSE]
    ELSE s

\* speak(text) as called by turn t; the part before the timer
speak(s, t, text) ==
    [s EXCEPT !.utterances = [SynthCancel(s.utterances) EXCEPT ![t] = "timer"]]

-----------------------------------------------------------------------------
\* useVoiceRecognition

\* startListening: a new SpeechRecognition instance, started; the instance
\* held by recognitionRef before is not stopped.  capIdle and capGranted are
\* the values of voiceState === "idle" and hasRequiredPermissions closed over
\* by the onWakeWord callback given to this instance.
startListening(s, capIdle, capGranted) ==
    IF ~s.sttSupported THEN s
    ELSE [s EXCEPT !.sessions = Append(s.sessions,
                        [st |-> "starting", wakes |-> 0,
                         capIdle |-> capIdle, capGranted |-> capGranted,
                         results |-> << >>]),
                   !.recognitionRef = Len(s.sessions) + 1]

\* SpeechRecognition.stop() on instance i: a recording instance returns what
\* it has heard and ends ("stopping"), one that has not started yet just ends
\* ("ending"); nothing to stop once it has ended
RecognitionStop(sess, i) ==
    IF i \in DOMAIN sess /\ sess[i].st \in {"starting", "active"}
    THEN [sess EXCEPT ![i].st = IF @ = "active" THEN "stopping" ELSE "ending"]
    ELSE sess

\* stopListening without its setIsListening(false)
stopListeningKeepsFlag(s) ==
    IF s.recognitionRef # 0
    THEN [s EXCEPT !.sessions = RecognitionStop(s.sessions, s.recognitionRef)]
    ELSE s

\* stopListening
stopListening(s) ==
    IF s.recognitionRef # 0
    THEN [s EXCEPT !.sessions = RecognitionStop(s.sessions, s.recognitionRef),
                   !.isListening = FALSE]
    ELSE s

\* resetTranscript
resetTranscript(s) == [s EXCEPT !.transcript = << >>]

-----------------------------------------------------------------------------
\* VoiceMode

\* useAndroidPermissions: hasRequiredPermissions
hasRequiredPermissions(s) == s.mic = "granted"

\* stopEverything
stopEverything(s) ==
    [stopSpeaking(s) EXCEPT !.processingRef = FALSE, !.voiceState = "idle"]

\* a call of handleVoiceResult that has returned holds nothing any more
DoneTurn == [pc |-> "done", action |-> "null", isMuted |-> FALSE,
             messages |-> << >>, context |-> << >>]

\* speakResponse(text) as awaited by turn t; isMuted is the value closed over
\* when handleVoiceResult was called
speakResponse(s, t, text) ==
    IF text = << >> \/ s.turns[t].isMuted \/ ~s.ttsSupported
    THEN [s EXCEPT !.voiceState = "idle", !.turns[t] = DoneTurn]
    ELSE IF Trim(text) = << >>
         \* speak resolves at once, the finally branch follows
         THEN [s EXCEPT !.voiceState = "idle", !.turns[t] = DoneTurn]
         ELSE [speak(s, t, text) EXCEPT !.voiceState = "speaking",
                                        !.turns[t].pc = "speak"]

\* handleVoiceResult(text), up to the await of checkAndExecute, which has
\* called parsePhoneAction and awaits executeAction.  The call closes over
\* the getMessagesForContext, and so the messages, of the render whose
\* effect has made it.
handleVoiceResult(s, text, muted) ==
    IF Trim(text) = << >> \/ s.processingRef THEN s
    ELSE LET s1 == [s EXCEPT !.processingRef = TRUE,
                             !.voiceState = "thinking",
                             !.lastResponse = << >>,
                             !.turns = Append(s.turns,
                                 [pc |-> "check",
                                  action |-> parsePhoneAction(text),
                                  isMuted |-> muted,
                                  messages |-> s.messages,
                                  context |-> << >>]),
                             !.utterances = Append(s.utterances, "none")]
         IN  addMessage(s1, "user", text)

\* handleVoiceResult after checkAndExecute has resolved, if the response of a
\* handled command were spoken without being added to the conversation
AfterCheckUnrecorded(s, t) ==
    LET action == s.turns[t].action
    IN  IF action # "null"
        THEN LET response == executeAction(action)
                 s1 == [s EXCEPT !.lastResponse = response]
                 s3 == [s1 EXCEPT !.processingRef = FALSE]
             IN  speakResponse(s3, t, response)
        ELSE [s EXCEPT !.turns[t].pc = "process",
                       !.turns[t].context =
                           getMessagesForContext(s.turns[t].messages,
                                                 ContextCount)]

\* handleVoiceResult after checkAndExecute has resolved, if processMessage
\* were called whatever checkAndExecute has returned
AfterCheckAlwaysResponder(s, t) == [s EXCEPT !.turns[t].pc = "process"]

\* handleVoiceResult after checkAndExecute has resolved: the response of the
\* command, or the call of processMessage with conversationContext
AfterCheck(s, t) ==
    LET action == s.turns[t].action
    IN  IF action # "null"
        THEN LET response == executeAction(action)
                 s1 == [s EXCEPT !.lastResponse = response]
                 s2 == addMessage(s1, "assistant", response)
                 s3 == [s2 EXCEPT !.processingRef = FALSE]
             IN  speakResponse(s3, t, response)
        ELSE [s EXCEPT !.turns[t].pc = "process",
                       !.turns[t].context =
                           getMessagesForContext(s.turns[t].messages,
                                                 ContextCount)]

\* handleVoiceResult after processMessage has resolved (ok) or rejected
AfterProcess(s, t, ok) ==
    LET response == IF ok THEN localReply ELSE fallbackResponse
        s1 == [s EXCEPT !.lastResponse = response]
        s2 == addMessage(s1, "assistant", response)
        s3 == [s2 EXCEPT !.processingRef = FALSE]
    IN  speakResponse(s3, t, response)

\* startVoiceInteraction; granted is hasRequiredPermissions as closed over by
\* the caller, capIdle what the new onWakeWord closes over
startVoiceInteraction(s, capIdle, granted) ==
    IF ~granted THEN [s EXCEPT !.voiceState = "permissions"]
    ELSE IF ~s.sttSupported THEN s
    ELSE LET s1 == stopEverything(s)
             s2 == resetTranscript(s1)
             s3 == startListening(s2, capIdle, granted)
         IN  [s3 EXCEPT !.voiceState = "listening"]

\* onWakeWord of instance i
onWakeWord(s, i) ==
    IF s.sessions[i].capIdle /\ s.sessions[i].capGranted
    THEN startVoiceInteraction(s, s.sessions[i].capIdle, s.sessions[i].capGranted)
    ELSE s

\* the permission screen replaces the face, the stop and the mute buttons
showPermissionScreen(s) ==
    \/ s.voiceState = "permissions"
    \/ ~hasRequiredPermissions(s) /\ s.mic # "unknown"

isProcessing(s) == s.voiceState \in {"thinking", "speaking", "listening"}

-----------------------------------------------------------------------------
\* The effects of VoiceMode, in the order of their declaration.  All effects
\* of one pass read the values of the render they belong to (s); refs are
\* read live.

PermissionEffect(s, acc) ==
    IF s.mic # "granted" /\ s.mic # "unknown"
    THEN [acc EXCEPT !.voiceState = "permissions"]
    ELSE IF s.mic = "granted" /\ s.voiceState = "permissions"
         THEN [acc EXCEPT !.voiceState = "idle"]
         ELSE acc

ListeningEffect(s, acc) ==
    IF s.isListening /\ s.voiceState = "idle"
    THEN [acc EXCEPT !.voiceState = "listening"]
    ELSE acc

TranscriptEffect(s, acc) ==
    IF ~s.isListening /\ s.transcript # << >> /\ s.voiceState = "listening"
       /\ ~acc.processingRef
    THEN resetTranscript(handleVoiceResult(acc, s.transcript, s.isMuted))
    ELSE acc

EffectPass(s) == TranscriptEffect(s, ListeningEffect(s, PermissionEffect(s, s)))

\* the render that no pass of the effects changes any more
RECURSIVE Settle(_)
Settle(s) == LET t == EffectPass(s) IN IF t = s THEN s ELSE Settle(t)

\* no pass of the effects is due
Settled(s) == EffectPass(s) = s

\* The next render is s.  A step is taken only if the effects that follow it
\* stay within the bounds of the model.
Apply(s) ==
    LET e == Settle(s)
    IN  /\ Len(e.turns) <= MaxOverlap
        /\ Len(e.sessions) <= MaxSessions
        /\ voiceState' = s.voiceState
        /\ isMuted' = s.isMuted
        /\ lastResponse' = s.lastResponse
        /\ processingRef' = s.processingRef
        /\ messages' = s.messages
        /\ turns' = s.turns
        /\ isListening' = s.isListening
        /\ transcript' = s.transcript
        /\ recognitionRef' = s.recognitionRef
        /\ sessions' = s.sessions
        /\ isSpeaking' = s.isSpeaking
        /\ utterances' = s.utterances
        /\ mic' = s.mic
        /\ osMic' = s.osMic
        /\ checkInFlight' = s.checkInFlight
        /\ reqPc' = s.reqPc
        /\ reqMic' = s.reqMic
        /\ isRequestingPermissions' = s.isRequestingPermissions
        /\ sttSupported' = s.sttSupported
        /\ ttsSupported' = s.ttsSupported
        /\ queryable' = s.queryable
        /\ synth' = s.synth
        /\ alarm' = s.alarm
        /\ reqOverlap' = s.reqOverlap
        /\ gateway' = s.gateway
        /\ background' = s.background

\* a callback runs: the effects of the last render have run
Commit(s) == Settled(St) /\ Apply(s)

\* one pass of the effects of VoiceMode
RunEffects == ~Settled(St) /\ Apply(EffectPass(St))

-----------------------------------------------------------------------------
\* useAndroidPermissions

\* no alarm command
NoAlarm == [text |-> << >>, action |-> << >>, set |-> << >>]

\* no flow of requestAllPermissions
NoFlow == [pc |-> "none", mic |-> FALSE]

\* checkMicrophonePermission
checkMicrophonePermission(os, q) ==
    IF q /\ os \in {"granted", "denied"} THEN os ELSE "prompt"

-----------------------------------------------------------------------------
\* useBackgroundWakeWord, with enabled = true (its default)

\* the state of the hook before its mount effect; VoiceMode does not use the
\* hook
NoBackground ==
    [isBackgroundActive |-> FALSE, lastWakeTime |-> 0, isNative |-> FALSE,
     recognitionRef |-> 0, sessions |-> << >>, restarts |-> << >>,
     pending |-> 0, now |-> StartTime, wakeTimes |-> << >>]

\* the wakeWords of useBackgroundWakeWord (its default)
backgroundWakeWords ==
    { <<"wake up", " ", "buddy">>, <<"wake up", " ", "max">>,
      <<"hey", " ", "buddy">>, <<"hey", " ", "max">> }

\* startBackgroundListening of a render whose isBackgroundActive is active
\* and whose lastWakeTime is last: a new instance, started; the instance held
\* before is not stopped.  The handlers of the instance close over active
\* and, through handleWakeWordDetected, over last.
startBackgroundListening(b, supported, active, last) ==
    IF ~supported THEN b
    ELSE [b EXCEPT !.sessions = Append(b.sessions,
                        [st |-> "active", isBackgroundActive |-> active,
                         lastWakeTime |-> last]),
                   !.recognitionRef = Len(b.sessions) + 1,
                   !.isBackgroundActive = TRUE]

\* handleWakeWordDetected of a render whose lastWakeTime is last, up to the
\* await of LocalNotifications.schedule; onWakeWord is the owner's callback
handleWakeWordDetected(b, last) ==
    IF b.now - last < WAKE_DEBOUNCE_MS THEN b
    ELSE [b EXCEPT !.lastWakeTime = b.now,
                   !.wakeTimes = SliceLast(Append(@, b.now), 2),
                   !.pending = IF b.isNative THEN @ + 1 ELSE @]

RECURSIVE backgroundOnresultFrom(_, _, _, _)
\* the for loop of recognition.onresult, for results i..Len (1-based)
backgroundOnresultFrom(b, last, results, i) ==
    IF i > Len(results) THEN b
    ELSE backgroundOnresultFrom(
            IF \E w \in backgroundWakeWords :
                  Includes(ToLowerCase(results[i].transcript), ToLowerCase(w))
            THEN handleWakeWordDetected(b, last) ELSE b,
            last, results, i + 1)

\* recognition.onresult of instance i
backgroundOnresult(b, i, ev) ==
    backgroundOnresultFrom(b, b.sessions[i].lastWakeTime, ev.results,
                           ev.resultIndex + 1)

\* stopBackgroundListening
stopBackgroundListening(b) ==
    [b EXCEPT !.sessions = IF b.recognitionRef # 0
                           THEN RecognitionStop(b.sessions, b.recognitionRef)
                           ELSE @,
              !.recognitionRef = 0,
              !.isBackgroundActive = FALSE]

\* recognition.onerror of instance i: a timer of 1000 ms for no-speech and
\* aborted, whose callback restarts if the isBackgroundActive closed over is
\* true; onend follows
backgroundOnerror(b, i, recoverable) ==
    [b EXCEPT !.sessions[i].st = "ending",
              !.restarts = IF recoverable /\ b.sessions[i].isBackgroundActive
                           THEN Append(@, b.sessions[i].lastWakeTime) ELSE @]

\* the sequence without its i-th element
Remove(seq, i) == SubSeq(seq, 1, i - 1) \o SubSeq(seq, i + 1, Len(seq))

\* recognition.onend of instance i: a timer of 500 ms that restarts, if the
\* isBackgroundActive closed over is true
backgroundOnend(b, i) ==
    [b EXCEPT !.sessions = Remove(b.sessions, i),
              !.recognitionRef = IF @ = i THEN -1
                                 ELSE IF @ > i THEN @ - 1 ELSE @,
              !.restarts = IF b.sessions[i].isBackgroundActive
                           THEN Append(@, b.sessions[i].lastWakeTime) ELSE @]

-----------------------------------------------------------------------------
\* State after the component has mounted, but for the conversation that was
\* loaded and for the platform
InitVoice ==
    /\ voiceState = "idle"
    /\ isMuted = FALSE
    /\ lastResponse = << >>
    /\ processingRef = FALSE
    /\ turns = << >>
    /\ isListening = FALSE
    /\ transcript = << >>
    /\ recognitionRef = 0
    /\ sessions = << >>
    /\ isSpeaking = FALSE
    /\ utterances = << >>
    /\ reqPc = "none"
    /\ reqMic = FALSE
    /\ isRequestingPermissions = FALSE
    /\ reqOverlap = NoFlow
    /\ gateway = << >>

\* The platform grants the microphone and can be asked about it; the check of
\* the mount effect has returned.  Speech recognition and synthesis may be
\* missing.
InitGranted ==
    /\ InitVoice
    /\ alarm = NoAlarm
    /\ messages = << >>
    /\ mic = "granted"
    /\ osMic = "granted"
    /\ queryable = TRUE
    /\ checkInFlight = FALSE
    /\ sttSupported \in BOOLEAN
    /\ ttsSupported \in BOOLEAN
    /\ synth = NoVoices
    /\ background = NoBackground

\* The user has not decided about the microphone yet, and the platform may or
\* may not answer navigator.permissions.query for it (an Android WebView does
\* not); the check of the mount effect is in flight.
InitPrompt ==
    /\ InitVoice
    /\ alarm = NoAlarm
    /\ messages = << >>
    /\ mic = "unknown"
    /\ osMic = "prompt"
    /\ queryable \in BOOLEAN
    /\ checkInFlight = TRUE
    /\ sttSupported = TRUE
    /\ ttsSupported = TRUE
    /\ synth = NoVoices
    /\ background = NoBackground

-----------------------------------------------------------------------------
\* User input

\* handleFaceClick (the face of the main screen)
FaceClick ==
    /\ ~showPermissionScreen(St)
    /\ voiceState \in {"idle", "listening", "speaking", "thinking"}
    /\ Commit(CASE voiceState = "idle" ->
                     startVoiceInteraction(St, voiceState = "idle",
                                           hasRequiredPermissions(St))
                [] voiceState = "listening" -> stopListening(St)
                [] OTHER -> stopEverything(St))

\* the stop button, shown while isProcessing
StopButton ==
    /\ ~showPermissionScreen(St)
    /\ isProcessing(St)
    /\ Commit(stopEverything(St))

\* handleClearHistory (the button is shown while there are messages)
ClearHistory ==
    /\ ~showPermissionScreen(St)
    /\ messages # << >>
    /\ Commit([clearHistory(St) EXCEPT !.lastResponse = << >>])

\* handleMuteToggle
handleMuteToggle(s) ==
    LET s1 == [s EXCEPT !.isMuted = ~s.isMuted]
    IN  IF s.isSpeaking
        THEN [stopSpeaking(s1) EXCEPT !.voiceState = "idle"]
        ELSE s1

MuteToggle ==
    /\ ~showPermissionScreen(St)
    /\ Commit(handleMuteToggle(St))

\* handleRequestPermissions up to the await of getUserMedia (the face or the
\* button of the permission screen)
RequestPermissions ==
    /\ showPermissionScreen(St)
    /\ reqPc = "none"
    /\ Commit([St EXCEPT !.isRequestingPermissions = TRUE, !.reqPc = "mic"])

\* getUserMedia settles, if the notification request were started without the
\* pause
GetUserMediaDoneNoDelay ==
    /\ reqPc = "mic"
    /\ \E granted \in BOOLEAN :
        /\ osMic = "granted" => granted
        /\ osMic = "denied" => ~granted
        /\ Commit([St EXCEPT !.osMic = IF granted THEN "granted" ELSE "denied",
                             !.mic = IF granted THEN "granted" ELSE "denied",
                             !.reqMic = granted,
                             !.reqPc = "notif"])

\* getUserMedia settles: the platform grants or refuses
GetUserMediaDone ==
    /\ reqPc = "mic"
    /\ \E granted \in BOOLEAN :
        /\ osMic = "granted" => granted
        /\ osMic = "denied" => ~granted
        /\ Commit([St EXCEPT !.osMic = IF granted THEN "granted" ELSE "denied",
                             !.mic = IF granted THEN "granted" ELSE "denied",
                             !.reqMic = granted,
                             !.reqPc = "delay"])

\* the 500 ms pause of requestAllPermissions is over
RequestDelayDone ==
    /\ reqPc = "delay"
    /\ Commit([St EXCEPT !.reqPc = "notif"])

\* requestNotificationPermission settles; requestAllPermissions returns and
\* handleRequestPermissions continues
RequestNotificationDone ==
    /\ reqPc = "notif"
    /\ LET s1 == [St EXCEPT !.isRequestingPermissions = FALSE, !.reqPc = "none"]
           s2 == [s1 EXCEPT !.reqMic = FALSE]
       IN  Commit(IF reqMic THEN [s2 EXCEPT !.voiceState = "idle"] ELSE s2)

\* handleRequestPermissions by the face of the permission screen, which is
\* not disabled while a flow is in flight
RequestPermissionsAgain ==
    /\ showPermissionScreen(St)
    /\ reqPc # "none"
    /\ reqOverlap.pc = "none"
    /\ Commit([St EXCEPT !.isRequestingPermissions = TRUE,
                         !.reqOverlap = [pc |-> "mic", mic |-> FALSE]])

\* getUserMedia of that flow settles
OverlapGetUserMediaDone ==
    /\ reqOverlap.pc = "mic"
    /\ \E granted \in BOOLEAN :
        /\ osMic = "granted" => granted
        /\ osMic = "denied" => ~granted
        /\ Commit([St EXCEPT !.osMic = IF granted THEN "granted" ELSE "denied",
                             !.mic = IF granted THEN "granted" ELSE "denied",
                             !.reqOverlap = [pc |-> "delay", mic |-> granted]])

\* its pause is over
OverlapDelayDone ==
    /\ reqOverlap.pc = "delay"
    /\ Commit([St EXCEPT !.reqOverlap.pc = "notif"])

\* its requestNotificationPermission settles; it returns and its
\* handleRequestPermissions continues
OverlapNotificationDone ==
    /\ reqOverlap.pc = "notif"
    /\ LET s1 == [St EXCEPT !.isRequestingPermissions = FALSE,
                            !.reqOverlap = NoFlow]
       IN  Commit(IF reqOverlap.mic THEN [s1 EXCEPT !.voiceState = "idle"] ELSE s1)

\* visibilitychange: checkAllPermissions starts
VisibilityChange ==
    /\ ~checkInFlight
    /\ Commit([St EXCEPT !.checkInFlight = TRUE])

\* checkAllPermissions: the platform answers and setPermissions(newState)
CheckAllPermissionsDone ==
    /\ checkInFlight
    /\ Commit([St EXCEPT !.mic = checkMicrophonePermission(osMic, queryable),
                         !.checkInFlight = FALSE])

-----------------------------------------------------------------------------
\* Events of the speech recognition engine on instance i

\* recognition.onstart
RecognitionStart(i) ==
    /\ sessions[i].st = "starting"
    /\ Commit([St EXCEPT !.sessions[i].st = "active", !.isListening = TRUE])

\* recognition.onresult
onresult(s, i, ev) ==
    LET currentTranscript == CurrentTranscript(ev)
        s1 == [s EXCEPT !.transcript = currentTranscript]
    IN  IF ContainsWakeWord(currentTranscript)
        THEN onWakeWord([s1 EXCEPT !.sessions[i].wakes =
                                      IF @ < MaxWakes THEN @ + 1 ELSE @], i)
        ELSE s1

RecognitionResult(i) ==
    /\ sessions[i].st \in {"active", "stopping"}
    /\ \E ev \in Events : Commit(onresult(St, i, ev))

\* recognition.onresult while the user says nothing but wake phrases
WakeEvents ==
    {ev \in Events : \/ ContainsWakeWord(CurrentTranscript(ev))
                     \/ Trim(CurrentTranscript(ev)) = << >>}

RecognitionWake(i) ==
    /\ sessions[i].st \in {"active", "stopping"}
    /\ \E ev \in WakeEvents : Commit(onresult(St, i, ev))

\* recognition.onerror (no-speech, aborted, not-allowed, ...); onend follows
RecognitionError(i) ==
    /\ sessions[i].st \in {"starting", "active", "stopping"}
    /\ Commit([St EXCEPT !.sessions[i].st = "ending", !.isListening = FALSE])

\* recognition.onend: the instance delivers no further event
RecognitionEnd(i) ==
    /\ sessions[i].st \in {"active", "stopping", "ending"}
    /\ Commit([St EXCEPT !.sessions = Remove(sessions, i),
                         !.recognitionRef = IF @ = i THEN -1
                                            ELSE IF @ > i THEN @ - 1 ELSE @,
                         !.isListening = FALSE])

-----------------------------------------------------------------------------
\* Continuations of handleVoiceResult for turn t

CheckAndExecuteDone(t) ==
    /\ turns[t].pc = "check"
    /\ Commit(AfterCheck(St, t))

ProcessMessageDone(t) ==
    /\ turns[t].pc = "process"
    /\ \E ok \in BOOLEAN : Commit(AfterProcess(St, t, ok))

-----------------------------------------------------------------------------
\* Timers and events of the speech synthesis engine on utterance u

\* the 150 ms timer of speak(): speechSynthesis.speak(utterance)
SpeakTimer(u) ==
    /\ utterances[u] = "timer"
    /\ Commit([St EXCEPT !.utterances[u] = "queued",
                         !.synth = ChooseVoice(@)])

\* utterance.onstart; the engine plays one utterance at a time
UtteranceStart(u) ==
    /\ utterances[u] = "queued"
    /\ \A v \in DOMAIN utterances : utterances[v] # "playing"
    /\ Commit([St EXCEPT !.utterances[u] = "playing", !.isSpeaking = TRUE])

\* the promise of speak() settles; the finally branch of speakResponse runs
SpeakSettled(s, u) ==
    [s EXCEPT !.utterances[u] = "none",
              !.isSpeaking = FALSE,
              !.voiceState = "idle",
              !.turns[u] = DoneTurn]

\* utterance.onend
UtteranceEnd(u) ==
    /\ utterances[u] = "playing"
    /\ Commit(SpeakSettled(St, u))

\* utterance.onerror with a synthesis error: the promise rejects ("failed");
\* speakResponse catches the rejection
UtteranceError(u) ==
    /\ utterances[u] \in {"queued", "playing"}
    /\ Commit([SpeakSettled(St, u) EXCEPT !.utterances[u] = "failed"])

\* utterance.onerror with interrupted or canceled, if the promise were
\* rejected for every error
UtteranceCancelledRejects(u) ==
    /\ utterances[u] = "cancelled"
    /\ Commit([SpeakSettled(St, u) EXCEPT !.utterances[u] = "failed"])

\* utterance.onerror with interrupted or canceled: the promise resolves
UtteranceCancelled(u) ==
    /\ utterances[u] = "cancelled"
    /\ Commit(SpeakSettled(St, u))

\* the 300 ms timer of the isSpeaking effect.  It is set in the render that
\* follows the call of speak(), so the 150 ms timer of speak() fires first.
SpeakingPollTimer ==
    /\ voiceState = "speaking" /\ ~isSpeaking
    /\ \A u \in DOMAIN utterances : utterances[u] # "timer"
    /\ Commit([St EXCEPT !.voiceState = "idle"])

-----------------------------------------------------------------------------
\* the step A, taken only if no more than MaxTurns transcripts are accepted
SingleTurn(A) == A /\ LET next == St' IN Len(Settle(next).turns) <= MaxTurns

\* The voice interaction: user input, recognition, responder and synthesis
NextVoice ==
    \/ SingleTurn(RunEffects)
    \/ SingleTurn(FaceClick)
    \/ SingleTurn(StopButton)
    \/ SingleTurn(MuteToggle)
    \/ \E i \in DOMAIN sessions : SingleTurn(RecognitionStart(i))
    \/ \E i \in DOMAIN sessions : SingleTurn(RecognitionResult(i))
    \/ \E i \in DOMAIN sessions : SingleTurn(RecognitionError(i))
    \/ \E i \in DOMAIN sessions : SingleTurn(RecognitionEnd(i))
    \/ \E t \in DOMAIN turns : SingleTurn(CheckAndExecuteDone(t))
    \/ \E t \in DOMAIN turns : SingleTurn(ProcessMessageDone(t))
    \/ \E u \in DOMAIN utterances : SingleTurn(SpeakTimer(u))
    \/ \E u \in DOMAIN utterances : SingleTurn(UtteranceStart(u))
    \/ \E u \in DOMAIN utterances : SingleTurn(UtteranceEnd(u))
    \/ \E u \in DOMAIN utterances : SingleTurn(UtteranceError(u))
    \/ \E u \in DOMAIN utterances : SingleTurn(UtteranceCancelled(u))
    \/ SingleTurn(SpeakingPollTimer)

\* The permission gate
NextPermissions ==
    \/ RequestPermissions
    \/ GetUserMediaDone
    \/ RequestDelayDone
    \/ RequestNotificationDone
    \/ VisibilityChange
    \/ CheckAllPermissionsDone

\* The permission screen, whose face starts a flow while another is in flight
NextRequests ==
    \/ RunEffects
    \/ FaceClick
    \/ NextPermissions
    \/ RequestPermissionsAgain
    \/ OverlapGetUserMediaDone
    \/ OverlapDelayDone
    \/ OverlapNotificationDone

SpecRequests == InitPrompt /\ [][NextRequests]_vars

\* The voice interaction while the microphone permission is granted and is
\* not asked about again
Spec == InitGranted /\ [][NextVoice]_vars

\* Capture while the user says nothing but wake phrases, so that no
\* transcript reaches the responder
NextCapture ==
    \/ RunEffects
    \/ FaceClick
    \/ StopButton
    \/ \E i \in DOMAIN sessions : RecognitionStart(i)
    \/ \E i \in DOMAIN sessions : RecognitionWake(i)
    \/ \E i \in DOMAIN sessions : RecognitionError(i)
    \/ \E i \in DOMAIN sessions : RecognitionEnd(i)

\* The permission gate together with capture
SpecPermissions == InitPrompt /\ [][NextCapture \/ NextPermissions]_vars

TypeOK ==
    /\ voiceState \in VoiceStates
    /\ mic \in PermissionStatus
    /\ Len(turns) <= MaxOverlap
    /\ Len(sessions) <= MaxSessions

-----------------------------------------------------------------------------
\* Turns that the user does not interrupt, under fair scheduling

\* checkAndExecute rejects (parsePhoneAction has found a command and
\* executeAction throws): the await of
\* handleVoiceResult lies before its try block, so the call ends there with
\* an unhandled rejection
AfterCheckRejected(s, t) == [s EXCEPT !.turns[t] = DoneTurn]

CheckAndExecuteRejects(t) ==
    /\ turns[t].pc = "check"
    /\ turns[t].action # "null"
    /\ Commit(AfterCheckRejected(St, t))

\* the user taps the face to talk or to end the capture
TapToTalk == voiceState \in {"idle", "listening"} /\ FaceClick

\* the user speaks while the assistant listens
SpeechWhileListening(i) == voiceState = "listening" /\ RecognitionResult(i)

\* an instance that was stopped or has failed ends
RecognitionFinishes(i) ==
    sessions[i].st \in {"stopping", "ending"} /\ RecognitionEnd(i)

\* the responder calls settle
ResponderSettles ==
    \E t \in DOMAIN turns :
        \/ CheckAndExecuteDone(t)
        \/ CheckAndExecuteRejects(t)
        \/ ProcessMessageDone(t)

\* the timers of speak and of the isSpeaking effect, and the events of the
\* synthesis engine
PlaybackProceeds ==
    \/ SpeakingPollTimer
    \/ \E u \in DOMAIN utterances :
          \/ SpeakTimer(u)
          \/ UtteranceStart(u)
          \/ UtteranceEnd(u)
          \/ UtteranceError(u)
          \/ UtteranceCancelled(u)

NextTurn ==
    \/ SingleTurn(RunEffects)
    \/ SingleTurn(TapToTalk)
    \/ \E i \in DOMAIN sessions : SingleTurn(RecognitionStart(i))
    \/ \E i \in DOMAIN sessions : SingleTurn(SpeechWhileListening(i))
    \/ \E i \in DOMAIN sessions : SingleTurn(RecognitionError(i))
    \/ \E i \in DOMAIN sessions : SingleTurn(RecognitionEnd(i))
    \/ SingleTurn(ResponderSettles)
    \/ SingleTurn(PlaybackProceeds)

\* Effects run after every render, promises settle, timers fire, and the
\* engines deliver their events; the user is under no obligation.
SpecTurn ==
    /\ InitGranted
    /\ [][NextTurn]_vars
    /\ WF_vars(SingleTurn(RunEffects))
    /\ WF_vars(SingleTurn(ResponderSettles))
    /\ WF_vars(SingleTurn(PlaybackProceeds))
    /\ WF_vars(\E i \in DOMAIN sessions : SingleTurn(RecognitionStart(i)))
    /\ WF_vars(\E i \in DOMAIN sessions : SingleTurn(RecognitionFinishes(i)))

-----------------------------------------------------------------------------
\* Turns that may overlap: the user asks the responder and stops the assistant

\* recognition and synthesis are supported
InitOverlap == InitGranted /\ sttSupported /\ ttsSupported

\* recognition.onresult with a request for the responder: no wake phrase
\* and no phone command
CommandEvents ==
    {ev \in Events : /\ Trim(CurrentTranscript(ev)) # << >>
                     /\ ~ContainsWakeWord(CurrentTranscript(ev))
                     /\ parsePhoneAction(CurrentTranscript(ev)) = "null"}

RecognitionCommand(i) ==
    /\ sessions[i].st \in {"active", "stopping"}
    /\ \E ev \in CommandEvents : Commit(onresult(St, i, ev))

NextOverlap ==
    \/ RunEffects
    \/ FaceClick
    \/ StopButton
    \/ \E i \in DOMAIN sessions : RecognitionStart(i)
    \/ \E i \in DOMAIN sessions : RecognitionCommand(i)
    \/ \E i \in DOMAIN sessions : RecognitionEnd(i)
    \/ \E t \in DOMAIN turns : CheckAndExecuteDone(t)
    \/ \E t \in DOMAIN turns : ProcessMessageDone(t)
    \/ \E u \in DOMAIN utterances : SpeakTimer(u)
    \/ \E u \in DOMAIN utterances : UtteranceStart(u)
    \/ \E u \in DOMAIN utterances : UtteranceEnd(u)
    \/ \E u \in DOMAIN utterances : UtteranceError(u)
    \/ \E u \in DOMAIN utterances : UtteranceCancelled(u)
    \/ SpeakingPollTimer

SpecOverlap == InitOverlap /\ [][NextOverlap]_vars

-----------------------------------------------------------------------------
\* A turn in a conversation that was stored before

Digit == <<"0", "1", "2", "3", "4", "5", "6", "7", "8", "9">>

RECURSIVE NumberText(_)
\* the decimal digits of n
NumberText(n) ==
    IF n < 10 THEN <<Digit[n + 1]>>
    ELSE NumberText(n \div 10) \o <<Digit[(n % 10) + 1]>>

\* a stored conversation of n messages, each with a text of its own
StoredMessages(n) ==
    [i \in 1..n |-> [role |-> IF i % 2 = 1 THEN "user" ELSE "assistant",
                     content |-> NumberText(i)]]

\* the conversation that initConversation loads: empty, around the size of
\* the context, or around MAX_MESSAGES
StoredLengths ==
    {0} \cup (ContextCount - 1)..(ContextCount + MaxExtra)
        \cup {MAX_MESSAGES - 1, MAX_MESSAGES}

InitContext ==
    /\ InitVoice
    /\ alarm = NoAlarm
    /\ \E n \in StoredLengths : messages = StoredMessages(n)
    /\ mic = "granted"
    /\ osMic = "granted"
    /\ queryable = TRUE
    /\ checkInFlight = FALSE
    /\ sttSupported = TRUE
    /\ ttsSupported \in BOOLEAN
    /\ synth = NoVoices
    /\ background = NoBackground

NextContext ==
    \/ SingleTurn(RunEffects)
    \/ SingleTurn(TapToTalk)
    \/ SingleTurn(ClearHistory)
    \/ \E i \in DOMAIN sessions : SingleTurn(RecognitionStart(i))
    \/ \E i \in DOMAIN sessions : SingleTurn(SpeechWhileListening(i))
    \/ \E i \in DOMAIN sessions : SingleTurn(RecognitionEnd(i))
    \/ SingleTurn(ResponderSettles)
    \/ SingleTurn(PlaybackProceeds)

SpecContext == InitContext /\ [][NextContext]_vars

-----------------------------------------------------------------------------
\* The choice of the voice, for the voice lists of an engine

Voice(n, l, loc) == [name |-> n, lang |-> l, localService |-> loc]

\* the voices an engine may offer; "Alexander" contains "Alex"
Voices ==
    { Voice(<<"Google US English">>, <<"en", "-US">>, FALSE),
      Voice(<<"Samantha">>, <<"en", "-US">>, TRUE),
      Voice(<<"Alex", "ander">>, <<"de", "-DE">>, TRUE),
      Voice(<<"Microsoft David">>, <<"en", "-US">>, TRUE),
      Voice(<<"Microsoft Zira Online">>, <<"en", "-GB">>, FALSE),
      Voice(<<"Amelie">>, <<"fr", "-FR">>, TRUE) }

\* the lists of at most MaxVoices different voices
VoiceLists ==
    UNION { {l \in [1..n -> Voices] : \A i, j \in 1..n : i # j => l[i] # l[j]}
            : n \in 0..MaxVoices }

\* the hook has mounted: loadVoices has run once
InitVoices ==
    /\ InitVoice
    /\ alarm = NoAlarm
    /\ messages = << >>
    /\ mic = "granted"
    /\ osMic = "granted"
    /\ queryable = TRUE
    /\ checkInFlight = FALSE
    /\ sttSupported = TRUE
    /\ ttsSupported = TRUE
    /\ background = NoBackground
    /\ \E l \in VoiceLists : synth = loadVoices([NoVoices EXCEPT !.getVoices = l])

\* onvoiceschanged: the engine has another list; loadVoices
VoicesChanged ==
    \E l \in VoiceLists :
        Commit([St EXCEPT !.synth = loadVoices([synth EXCEPT !.getVoices = l])])

\* the timer of a speak() creates its utterance
VoiceChosen == Commit([St EXCEPT !.synth = ChooseVoice(synth)])

NextVoices == VoicesChanged \/ VoiceChosen

SpecVoices == InitVoices /\ [][NextVoices]_vars

-----------------------------------------------------------------------------
\* useBackgroundWakeWord in a component that starts and stops it

\* the hook has mounted: its mount effect has called the
\* startBackgroundListening of the first render, where isBackgroundActive is
\* false and lastWakeTime is 0
InitBackground ==
    /\ InitVoice
    /\ alarm = NoAlarm
    /\ messages = << >>
    /\ mic = "granted"
    /\ osMic = "granted"
    /\ queryable = TRUE
    /\ checkInFlight = FALSE
    /\ sttSupported = TRUE
    /\ ttsSupported = TRUE
    /\ synth = NoVoices
    /\ \E native \in BOOLEAN :
          background = startBackgroundListening(
              [NoBackground EXCEPT !.isNative = native], sttSupported, FALSE, 0)

\* the state of the hook becomes b
CommitBackground(b) ==
    /\ Len(b.sessions) <= MaxSessions
    /\ Len(b.restarts) <= MaxRestarts
    /\ b.pending <= MaxWakes
    /\ Commit([St EXCEPT !.background = b])

\* the owner calls startBackgroundListening of the current render
BackgroundStart ==
    CommitBackground(startBackgroundListening(background, sttSupported,
                                              background.isBackgroundActive,
                                              background.lastWakeTime))

\* the owner calls stopBackgroundListening
BackgroundStop == CommitBackground(stopBackgroundListening(background))

\* recognition.onerror
BackgroundError(i) ==
    /\ background.sessions[i].st \in {"active", "stopping"}
    /\ \E recoverable \in BOOLEAN :
          CommitBackground(backgroundOnerror(background, i, recoverable))

\* recognition.onend
BackgroundEnd(i) == CommitBackground(backgroundOnend(background, i))

\* restart timer k fires: the startBackgroundListening that set it had closed
\* over isBackgroundActive = true, and calls itself
BackgroundRestart(k) ==
    CommitBackground(startBackgroundListening(
        [background EXCEPT !.restarts = Remove(@, k)], sttSupported, TRUE,
        background.restarts[k]))

\* what the engine hears in the background: results with and without a wake
\* phrase of the hook
BackgroundEvents ==
    { [resultIndex |-> 0, results |-> <<Result(FALSE, <<"hi">>)>>],
      [resultIndex |-> 0, results |-> <<Result(FALSE, <<"Hey", " ", "buddy">>)>>],
      [resultIndex |-> 1, results |-> <<Result(TRUE, <<"Hey", " ", "buddy">>),
                                        Result(FALSE, <<"hi">>)>>],
      [resultIndex |-> 0, results |-> <<Result(TRUE, <<"Hey", " ", "buddy">>),
                                        Result(FALSE, <<"hey", " ", "max">>)>>] }

\* recognition.onresult
BackgroundResult(i) ==
    /\ background.sessions[i].st \in {"active", "stopping"}
    /\ \E ev \in BackgroundEvents :
          CommitBackground(backgroundOnresult(background, i, ev))

\* LocalNotifications.schedule settles; if it resolves, handleWakeWordDetected
\* calls onWakeWord
NotificationScheduled ==
    /\ background.pending > 0
    /\ CommitBackground([background EXCEPT !.pending = @ - 1])

\* time passes
ClockTick ==
    /\ background.now < MaxTime
    /\ CommitBackground([background EXCEPT !.now = @ + Tick])

\* the life of the sessions: the owner starts and stops, the engine ends
NextBackground ==
    \/ BackgroundStart
    \/ BackgroundStop
    \/ \E i \in DOMAIN background.sessions : BackgroundError(i)
    \/ \E i \in DOMAIN background.sessions : BackgroundEnd(i)
    \/ \E k \in DOMAIN background.restarts : BackgroundRestart(k)

SpecBackground == InitBackground /\ [][NextBackground]_vars

\* the wake-word triggers: the engine hears, ends and is restarted while time
\* passes
NextWake ==
    \/ BackgroundStart
    \/ \E i \in DOMAIN background.sessions : BackgroundResult(i)
    \/ \E i \in DOMAIN background.sessions : BackgroundEnd(i)
    \/ \E k \in DOMAIN background.restarts : BackgroundRestart(k)
    \/ NotificationScheduled
    \/ ClockTick

SpecWake == InitBackground /\ [][NextWake]_vars

-----------------------------------------------------------------------------
\* The turn after a first turn: the user has said "hi", the turn has ended
\* and its reply is shown

InitSecondTurn ==
    /\ voiceState = "idle"
    /\ isMuted \in BOOLEAN
    /\ lastResponse = localReply
    /\ processingRef = FALSE
    /\ messages = << [role |-> "user", content |-> <<"hi">>],
                     [role |-> "assistant", content |-> localReply] >>
    /\ turns = << DoneTurn >>
    /\ isListening = FALSE
    /\ transcript = << >>
    /\ recognitionRef = -1
    /\ sessions = << >>
    /\ isSpeaking = FALSE
    /\ utterances = << "none" >>
    /\ reqPc = "none"
    /\ reqMic = FALSE
    /\ isRequestingPermissions = FALSE
    /\ alarm = NoAlarm
    /\ reqOverlap = NoFlow
    /\ gateway = << >>
    /\ mic = "granted"
    /\ osMic = "granted"
    /\ queryable = TRUE
    /\ checkInFlight = FALSE
    /\ sttSupported = TRUE
    /\ ttsSupported \in BOOLEAN
    /\ synth = NoVoices
    /\ background = NoBackground

NextSecondTurn ==
    \/ RunEffects
    \/ FaceClick
    \/ StopButton
    \/ MuteToggle
    \/ \E i \in DOMAIN sessions : RecognitionStart(i)
    \/ \E i \in DOMAIN sessions : RecognitionResult(i)
    \/ \E i \in DOMAIN sessions : RecognitionEnd(i)
    \/ ResponderSettles
    \/ PlaybackProceeds

SpecSecondTurn == InitSecondTurn /\ [][NextSecondTurn]_vars

-----------------------------------------------------------------------------
\* Capture of what the user says in several results: the result list of a
\* SpeechRecognition instance (event.results) holds every result of the
\* session, and event.resultIndex is the first result that has changed

\* what the engine recognises at a time
Heard == { <<"Hey">>, <<" ", "max">>, <<"set timer">> }

\* the events an instance with these results may deliver: a new result,
\* interim or final, once the last one is final; or the last result made final
EngineEvents(results) ==
    { [resultIndex |-> Len(results), results |-> Append(results, Result(f, w))] :
        f \in {b \in BOOLEAN : /\ Len(results) < MaxResults
                               /\ (results = << >> \/ results[Len(results)].isFinal)},
        w \in Heard }
    \cup
    { [resultIndex |-> Len(results) - 1,
       results |-> [results EXCEPT ![Len(results)].isFinal = TRUE]] :
        x \in {y \in {0} : results # << >> /\ ~results[Len(results)].isFinal} }

\* recognition.onresult with an event of the engine
RecognitionHears(i) ==
    /\ sessions[i].st \in {"active", "stopping"}
    /\ \E ev \in EngineEvents(sessions[i].results) :
          Commit(onresult([St EXCEPT !.sessions[i].results = ev.results], i, ev))

NextPhrases ==
    \/ SingleTurn(RunEffects)
    \/ SingleTurn(TapToTalk)
    \/ \E i \in DOMAIN sessions : SingleTurn(RecognitionStart(i))
    \/ \E i \in DOMAIN sessions : SingleTurn(RecognitionHears(i))
    \/ \E i \in DOMAIN sessions : SingleTurn(RecognitionEnd(i))
    \/ SingleTurn(ResponderSettles)
    \/ SingleTurn(PlaybackProceeds)

SpecPhrases == InitGranted /\ [][NextPhrases]_vars

-----------------------------------------------------------------------------
\* Alarm commands: the text is a sequence of words, spaces, ":" and digits

IsDigit(c) == \E n \in DOMAIN Digit : Digit[n] = c

DigitValue(c) == (CHOOSE n \in DOMAIN Digit : Digit[n] = c) - 1

RECURSIVE parseInt(_)
\* parseInt of a text of digits
parseInt(t) ==
    IF Len(t) = 1 THEN DigitValue(t[1])
    ELSE 10 * parseInt(SubSeq(t, 1, Len(t) - 1)) + DigitValue(t[Len(t)])

RECURSIVE SkipSpaces(_, _)
\* \s* from position i: the first position that holds no space
SkipSpaces(t, i) ==
    IF i <= Len(t) /\ IsSpace(t[i]) THEN SkipSpaces(t, i + 1) ELSE i

\* (?:for|at)\s+(\d{1,2}) matches at position i
TimeAt(t, i) ==
    /\ t[i] \in {"for", "at"}
    /\ i + 1 <= Len(t) /\ IsSpace(t[i + 1])
    /\ SkipSpaces(t, i + 1) <= Len(t)
    /\ IsDigit(t[SkipSpaces(t, i + 1)])

\* lower.match(/(?:for|at)\s+(\d{1,2})(?::(\d{2}))?\s*(am|pm)?/i): << >> for
\* null, else the match with its text and its three groups (<< >> for a
\* group that took no part)
timeMatch(t) ==
    IF \A i \in DOMAIN t : ~TimeAt(t, i) THEN << >>
    ELSE LET i == CHOOSE k \in DOMAIN t :
                      TimeAt(t, k) /\ \A j \in DOMAIN t : TimeAt(t, j) => k <= j
             h == SkipSpaces(t, i + 1)
             hEnd == IF h + 1 <= Len(t) /\ IsDigit(t[h + 1]) THEN h + 1 ELSE h
             hasMinute == /\ hEnd + 3 <= Len(t)
                          /\ t[hEnd + 1] = ":"
                          /\ IsDigit(t[hEnd + 2]) /\ IsDigit(t[hEnd + 3])
             rest == IF hasMinute THEN hEnd + 4 ELSE hEnd + 1
             p == SkipSpaces(t, rest)
             hasPeriod == p <= Len(t) /\ t[p] \in {"am", "pm"}
         IN  << [text |-> SubSeq(t, i, IF hasPeriod THEN p ELSE p - 1),
                 hour |-> SubSeq(t, h, hEnd),
                 minute |-> IF hasMinute THEN SubSeq(t, hEnd + 2, hEnd + 3)
                            ELSE << >>,
                 period |-> IF hasPeriod THEN << t[p] >> ELSE << >>] >>

\* the alarm branch of parsePhoneAction
parseAlarm(text) ==
    LET lower == Trim(ToLowerCase(text))
        m == timeMatch(lower)
        hour == IF m = << >> THEN 0 ELSE parseInt(m[1].hour)
        minute == IF m = << >> \/ m[1].minute = << >> THEN 0
                  ELSE parseInt(m[1].minute)
        period == IF m = << >> THEN << >> ELSE m[1].period
        hour1 == IF period = <<"pm">> /\ hour # 12 THEN hour + 12 ELSE hour
        hour2 == IF period = <<"am">> /\ hour1 = 12 THEN 0 ELSE hour1
    IN  [type |-> "alarm",
         time |-> IF m = << >> THEN << >> ELSE << m[1].text >>,
         hour |-> hour2, minute |-> minute, message |-> text]

\* what the user may say for the time of an alarm
AlarmHours ==
    { <<"0">>, <<"7">>, <<"1", "2">>, <<"1", "3">>, <<"2", "3">>, <<"3", "0">>,
      <<"7", "3", "0">> }

AlarmMinutes ==
    { << >>, <<":", "0", "0">>, <<":", "3", "0">>, <<":", "5", "9">>,
      <<":", "7", "5">> }

AlarmTexts ==
    { <<"set alarm">> }
    \cup { <<"set alarm", " ", w, " ">> \o h \o m \o sp \o pd :
             w \in {"for", "at"}, h \in AlarmHours, m \in AlarmMinutes,
             sp \in {<< >>, <<" ">>}, pd \in {<< >>, <<"am">>, <<"pm">>} }

\* the user has said an alarm command on a native platform
InitAlarm ==
    /\ InitVoice
    /\ messages = << >>
    /\ mic = "granted"
    /\ osMic = "granted"
    /\ queryable = TRUE
    /\ checkInFlight = FALSE
    /\ sttSupported = TRUE
    /\ ttsSupported = TRUE
    /\ synth = NoVoices
    /\ background = NoBackground
    /\ \E text \in AlarmTexts : alarm = [NoAlarm EXCEPT !.text = text]

\* checkAndExecute: parsePhoneAction
AlarmParsed ==
    /\ alarm.action = << >>
    /\ Commit([St EXCEPT !.alarm.action = << parseAlarm(alarm.text) >>])

\* executeAction, case 'alarm': setNativeAlarm(action.hour, action.minute || 0,
\* action.message)
AlarmSet ==
    /\ alarm.action # << >>
    /\ alarm.set = << >>
    /\ Commit([St EXCEPT !.alarm.set = << [hour |-> alarm.action[1].hour,
                                           minute |-> alarm.action[1].minute] >>])

NextAlarm == AlarmParsed \/ AlarmSet

SpecAlarm == InitAlarm /\ [][NextAlarm]_vars

-----------------------------------------------------------------------------
\* The chat function (supabase/functions/chat), serving requests that may
\* overlap

MaxRequests == 2    \* requests of the chat function held at the same time

\* the statuses the AI gateway may answer with
UpstreamStatuses ==
    {200, 201, 204, 299, 300, 304, 400, 401, 402, 403, 404, 428, 429, 430,
     500, 502, 503}

\* Response.ok
Ok(status) == status >= 200 /\ status <= 299

\* new Response(body, {status, headers}): the status is 200 if none is given
Response(status, contentType, error) ==
    [status |-> status, contentType |-> contentType, error |-> error]

\* the catch block
ChatError(message) == Response(500, "application/json", message)

\* a request read so far: pc is where the handler awaits, upstream the
\* status of the AI gateway (0 before it has answered), response the
\* Response returned (<< >> before)
ChatRequest(pc) == [pc |-> pc, upstream |-> 0, response |-> << >>]

Returned(r, response) == [r EXCEPT !.pc = "done", !.response = << response >>]

\* the handler up to its await req.json()
serve(method) ==
    IF method = "OPTIONS"
    THEN Returned(ChatRequest("done"), Response(200, "none", "none"))
    ELSE ChatRequest("json")

\* req.json() settles; the handler up to its await fetch(..)
AfterJson(r, parsed, key) ==
    IF ~parsed THEN Returned(r, ChatError("message of the exception"))
    ELSE IF ~key THEN Returned(r, ChatError("LOVABLE_API_KEY is not configured"))
    ELSE [r EXCEPT !.pc = "fetch"]

\* AfterFetch, if 402 were not told from the other failures
AfterFetchQuotaGeneric(r, status) ==
    LET u == [r EXCEPT !.upstream = status]
    IN  IF ~Ok(status)
        THEN IF status = 429
             THEN Returned(u, Response(429, "application/json",
                                       "Rate limits exceeded, please try again later."))
             ELSE [u EXCEPT !.pc = "text"]
        ELSE Returned(u, Response(200, "text/event-stream", "none"))

\* fetch(..) resolves with a response of this status; the handler up to its
\* await response.text() or its end
AfterFetch(r, status) ==
    LET u == [r EXCEPT !.upstream = status]
    IN  IF ~Ok(status)
        THEN IF status = 429
             THEN Returned(u, Response(429, "application/json",
                                       "Rate limits exceeded, please try again later."))
             ELSE IF status = 402
             THEN Returned(u, Response(402, "application/json",
                                       "Usage limit reached. Please try again later."))
             ELSE [u EXCEPT !.pc = "text"]
        ELSE Returned(u, Response(200, "text/event-stream", "none"))

\* response.text() settles
AfterText(r, read) ==
    IF read THEN Returned(r, Response(500, "application/json", "AI gateway error"))
    ELSE Returned(r, ChatError("message of the exception"))

CommitGateway(g) ==
    /\ Len(g) <= MaxRequests
    /\ Commit([St EXCEPT !.gateway = g])

\* a request arrives
ChatRequestArrives ==
    \E method \in {"OPTIONS", "POST"} :
        CommitGateway(Append(gateway, serve(method)))

ChatJsonSettles(i) ==
    /\ gateway[i].pc = "json"
    /\ \E parsed, key \in BOOLEAN :
          CommitGateway([gateway EXCEPT ![i] = AfterJson(@, parsed, key)])

ChatFetchResolves(i) ==
    /\ gateway[i].pc = "fetch"
    /\ \E status \in UpstreamStatuses :
          CommitGateway([gateway EXCEPT ![i] = AfterFetch(@, status)])

\* fetch(..) rejects: the AI gateway was not reached
ChatFetchRejects(i) ==
    /\ gateway[i].pc = "fetch"
    /\ CommitGateway([gateway EXCEPT ![i] =
                         Returned(@, ChatError("message of the exception"))])

ChatTextSettles(i) ==
    /\ gateway[i].pc = "text"
    /\ \E read \in BOOLEAN :
          CommitGateway([gateway EXCEPT ![i] = AfterText(@, read)])

\* the client has taken the answer
ChatAnswerTaken(i) ==
    /\ gateway[i].pc = "done"
    /\ CommitGateway(Remove(gateway, i))

NextGateway ==
    \/ ChatRequestArrives
    \/ \E i \in DOMAIN gateway : ChatJsonSettles(i)
    \/ \E i \in DOMAIN gateway : ChatFetchResolves(i)
    \/ \E i \in DOMAIN gateway : ChatFetchRejects(i)
    \/ \E i \in DOMAIN gateway : ChatTextSettles(i)
    \/ \E i \in DOMAIN gateway : ChatAnswerTaken(i)

SpecGateway == InitGranted /\ [][NextGateway]_vars

-----------------------------------------------------------------------------
\* What the claims speak about

\* a capture session is active: the engine is starting or recording
CaptureActive == \E i \in DOMAIN sessions : sessions[i].st \in {"starting", "active"}

\* a responder call (checkAndExecute or processMessage) is in flight
ResponderInFlight == \E t \in DOMAIN turns : turns[t].pc \in {"check", "process"}

\* an utterance is pending (timer, queue) or playing
PlaybackActive ==
    \E u \in DOMAIN utterances : utterances[u] \in {"timer", "queued", "playing"}

\* turn t awaits the responder although stopEverything has run since it began
Superseded(t) == turns[t].pc \in {"check", "process"} /\ ~processingRef

\* the step is a call of stopEverything by the user (stop button or face tap)
StopsEverything ==
    \/ StopButton
    \/ FaceClick /\ voiceState \in {"thinking", "speaking"}

-----------------------------------------------------------------------------
\* C1: when the responder call of a turn completes after stopEverything has
\* superseded the turn, the completion changes neither the phase nor starts
\* playback.
C1_StaleResponderIgnored ==
    [][\A t \in DOMAIN turns :
          (Superseded(t) /\ turns'[t].pc # turns[t].pc)
              => (voiceState' = voiceState /\ utterances'[t] = "none")]_vars

\* C2: stopEverything leaves the phase at idle with no capture session
\* active, and the phase goes from idle to listening only by a face tap or a
\* wake-word result, never because a capture session is still running.
C2_StopEverythingStops ==
    [][/\ StopsEverything => (voiceState' = "idle" /\ ~CaptureActive')
       /\ (voiceState = "idle" /\ voiceState' = "listening")
              => (FaceClick \/ \E i \in DOMAIN sessions : RecognitionResult(i))]_vars

\* C3: at most one of capture session, responder call and playback is active.
C3_OneActivity ==
    ~(CaptureActive /\ ResponderInFlight)
    /\ ~(CaptureActive /\ PlaybackActive)
    /\ ~(ResponderInFlight /\ PlaybackActive)

\* the edges of the transition table, and a new listening session started
\* while thinking or speaking
Edge(a, b) ==
    \/ b = "idle"
    \/ a = "idle" /\ b \in {"permissions", "listening"}
    \/ a = "listening" /\ b = "thinking"
    \/ a = "thinking" /\ b \in {"speaking", "error", "listening"}
    \/ a = "speaking" /\ b = "listening"

\* C4: every change of the phase follows an edge of the transition table; in
\* particular it never goes from idle to speaking, and "permissions" is
\* entered from idle only.
C4_TableEdges ==
    [][voiceState' # voiceState => Edge(voiceState, voiceState')]_vars

\* C5: toggling mute while the phase is speaking sets the phase to idle and
\* leaves no utterance pending or playing.
C5_MuteStopsSpeaking ==
    [][(MuteToggle /\ voiceState = "speaking")
          => (voiceState' = "idle" /\ ~PlaybackActive')]_vars

\* C6: a capture session calls onWakeWord at most once.
C6_WakeOncePerSession ==
    \A i \in DOMAIN sessions : sessions[i].wakes <= 1

\* the step in which processMessage rejects for turn t
ProcessMessageRejects(t) ==
    turns[t].pc = "process" /\ Commit(AfterProcess(St, t, FALSE))

\* C7: when processMessage rejects while the phase is thinking, the phase
\* becomes error and the fallback message is queued for playback.
C7_RejectGivesError ==
    [][\A t \in DOMAIN turns :
          (voiceState = "thinking" /\ ProcessMessageRejects(t))
              => (voiceState' = "error" /\ lastResponse' = fallbackResponse)]_vars

\* the last entry of the conversation is the assistant's text
LastIsAssistant(msgs, text) ==
    /\ msgs # << >>
    /\ msgs[Len(msgs)] = [role |-> "assistant", content |-> text]

\* the events of a capture session and of playback that lie between the
\* phase changes of a turn
TurnInProgress ==
    \/ \E i \in DOMAIN sessions : RecognitionStart(i) \/ RecognitionEnd(i)
    \/ \E i \in DOMAIN sessions :
          RecognitionResult(i) /\ Len(sessions') = Len(sessions)
    \/ \E u \in DOMAIN utterances : SpeakTimer(u) \/ UtteranceStart(u)

\* C8: the order of a normal turn.  With the microphone granted and speech
\* recognition supported a face tap in idle gives listening with a capture
\* session; the capture having ended with a non-blank transcript gives
\* thinking with a responder call; when checkAndExecute has handled the
\* command the assistant entry is in the conversation in the step that makes
\* the phase speaking (idle when muted or without speech synthesis); the end
\* of the playback gives idle; and the events in between leave the phase
\* alone.
C8_NormalTurnOrder ==
    [][/\ (FaceClick /\ voiceState = "idle" /\ mic = "granted" /\ sttSupported)
              => (voiceState' = "listening" /\ CaptureActive')
       /\ (RunEffects /\ voiceState = "listening" /\ ~isListening
               /\ Trim(transcript) # << >> /\ ~processingRef)
              => (voiceState' = "thinking" /\ ResponderInFlight'
                    /\ Len(turns') = Len(turns) + 1)
       /\ \A t \in DOMAIN turns :
              (CheckAndExecuteDone(t) /\ turns[t].action # "null")
                  => /\ LastIsAssistant(messages', executeAction(turns[t].action))
                     /\ Len(messages') = Len(messages) + 1
                     /\ lastResponse' = executeAction(turns[t].action)
                     /\ voiceState' = IF turns[t].isMuted \/ ~ttsSupported
                                      THEN "idle" ELSE "speaking"
                     /\ voiceState' = "speaking" => utterances'[t] = "timer"
       /\ \A u \in DOMAIN utterances :
              UtteranceEnd(u) => (voiceState' = "idle" /\ utterances'[u] = "none")
       /\ TurnInProgress => voiceState' = voiceState]_vars

\* a handled command is being spoken: the turn has gone from idle through
\* listening and thinking to speaking and its response is in the conversation
C8_Witness ==
    /\ voiceState = "speaking"
    /\ \E t \in DOMAIN turns :
          /\ turns[t].pc = "speak"
          /\ utterances[t] = "playing"
          /\ lastResponse = executeAction("timer")
          /\ LastIsAssistant(messages, executeAction("timer"))

\* C9: a capture session is created only while permissions.microphone is
\* granted; a face tap in idle without the permission sets the phase to
\* "permissions" and creates none.
C9_NoCaptureWithoutPermission ==
    [][/\ Len(sessions') > Len(sessions) => mic = "granted"
       /\ (FaceClick /\ voiceState = "idle" /\ mic # "granted")
              => (voiceState' = "permissions" /\ sessions' = sessions)]_vars

\* C10: a face tap while the phase is listening stops the capture session and
\* the phase is idle once the effects have run.
C10_TapStopsListening ==
    [][(FaceClick /\ voiceState = "listening")
          => (~CaptureActive' /\ Settle(St)'.voiceState = "idle")]_vars

\* C11: thinking is never terminal.  Whatever checkAndExecute and
\* processMessage do, the phase thinking leads to idle (or error) with
\* processingRef released.
C11_ThinkingEnds ==
    (voiceState = "thinking")
        ~> (voiceState \in {"idle", "error"} /\ ~processingRef)

\* no SpeechRecognition instance is left
CaptureEnded == sessions = << >>

\* C12: listening is never terminal.  Once the capture session has ended the
\* phase leaves listening.
C12_ListeningEnds ==
    (voiceState = "listening" /\ CaptureEnded) ~> (voiceState # "listening")

\* C13: every accepted transcript is given to checkAndExecute first, and
\* processMessage is called if and only if checkAndExecute has returned
\* handled = false, that is, parsePhoneAction has found no command.
C13_DeviceActionFirst ==
    [][\A t \in DOMAIN turns' :
          IF t \in DOMAIN turns
          THEN /\ (turns'[t].pc = "process" /\ turns[t].pc # "process")
                     => (turns[t].pc = "check" /\ turns[t].action = "null")
               /\ (turns[t].pc = "check" /\ turns'[t].pc # "check")
                     => (turns'[t].pc = "process" <=> turns[t].action = "null")
          ELSE /\ turns'[t].pc = "check"
               /\ turns'[t].action = parsePhoneAction(transcript)]_vars

\* processMessage is in flight for a transcript without a command
C13_Witness ==
    \E t \in DOMAIN turns : turns[t].pc = "process" /\ turns[t].action = "null"

\* C14: speak rejects only on a genuine synthesis error.  The promise of an
\* utterance that stop() or another speak() has cancelled resolves, and so
\* does the promise of an utterance that ends.
C14_SpeakRejectsOnlyOnError ==
    [][\A u \in DOMAIN utterances :
          /\ (utterances'[u] = "failed" /\ utterances[u] # "failed")
                => utterances[u] \in {"queued", "playing"}
          /\ (utterances[u] = "cancelled" /\ utterances'[u] # "cancelled")
                => utterances'[u] = "none"
          /\ UtteranceEnd(u) => utterances'[u] = "none"]_vars

\* another speak() has superseded an utterance
C14_Witness ==
    \E u, v \in DOMAIN utterances :
        utterances[u] = "cancelled" /\ utterances[v] = "timer"

\* C15: when speak rejects with a synthesis error while the phase is
\* speaking, the phase becomes error.
C15_SynthesisFailureGivesError ==
    [][\A u \in DOMAIN utterances :
          (voiceState = "speaking" /\ utterances[u] # "failed"
              /\ utterances'[u] = "failed")
                => voiceState' = "error"]_vars

\* C16: unless the user stops or mutes the assistant, the phase goes from
\* speaking to idle only when no utterance is waiting to start or playing.
C16_IdleOnlyAfterPlayback ==
    [][(voiceState = "speaking" /\ voiceState' = "idle"
            /\ ~StopsEverything /\ ~MuteToggle)
          => ~PlaybackActive']_vars

\* C17: when the responder result of a turn becomes available while the phase
\* is thinking and isMuted is true or speech synthesis is unsupported, the
\* phase becomes idle and no utterance is started.
C17_MutedGivesIdle ==
    [][\A t \in DOMAIN turns :
          (/\ voiceState = "thinking"
           /\ turns[t].pc \in {"check", "process"}
           /\ turns'[t].pc \in {"speak", "done"}
           /\ isMuted \/ ~ttsSupported)
              => (voiceState' = "idle" /\ utterances'[t] = "none")]_vars

\* C18: at most one call of handleVoiceResult is between the acceptance of
\* its transcript and the handing of its response to speakResponse.
C18_OneTurnInFlight ==
    Cardinality({t \in DOMAIN turns : turns[t].pc \in {"check", "process"}}) <= 1

\* the SpeechRecognition instances that are capturing: those of
\* useVoiceRecognition and those of useBackgroundWakeWord
CapturingSessions ==
    Cardinality({i \in DOMAIN sessions :
                    sessions[i].st \in {"starting", "active"}})
      + Cardinality({i \in DOMAIN background.sessions :
                        background.sessions[i].st = "active"})

\* C19: at most one speech-recognition session is capturing at any time,
\* foreground and background sessions counted together.
C19_OneSession == CapturingSessions <= 1

\* C20: when the engine ends a background session that nobody has stopped, a
\* restart of the capture is scheduled; when it ends a session that
\* stopBackgroundListening has stopped, none is.
C20_RestartUnlessStopped ==
    [][\A i \in DOMAIN background.sessions :
          BackgroundEnd(i) =>
              /\ background.sessions[i].st = "active"
                    => Len(background'.restarts) > Len(background.restarts)
              /\ background.sessions[i].st = "stopping"
                    => Len(background'.restarts) = Len(background.restarts)]_vars

\* the phase has returned to idle after a turn, and capture is possible
IdleAgain ==
    /\ voiceState = "idle"
    /\ turns # << >>
    /\ hasRequiredPermissions(St)
    /\ sttSupported

\* C21: whenever the phase has returned to idle while the microphone
\* permission is granted and speech recognition is supported, a capture
\* session eventually becomes active again, whether or not the user taps.
C21_WakeWordRearmed == IdleAgain ~> CaptureActive

\* C22: two triggers that handleWakeWordDetected accepts one after the other
\* are at least WAKE_DEBOUNCE_MS apart.
C22_WakeDebounced ==
    Len(background.wakeTimes) = 2
        => background.wakeTimes[2] - background.wakeTimes[1] >= WAKE_DEBOUNCE_MS

\* C23: the transcript of the capture is non-empty only while the phase is
\* listening.
C23_TranscriptOnlyWhileListening ==
    transcript # << >> => voiceState = "listening"

\* C24: a call of requestAllPermissions requests the microphone first; the
\* notification request starts only from the pause that follows the end,
\* granted or denied, of the microphone request.
C24_MicrophoneThenNotifications ==
    [][/\ (reqPc' = "mic" /\ reqPc # "mic") => reqPc = "none"
       /\ (reqPc = "mic" /\ reqPc' # "mic")
             => (reqPc' = "delay" /\ mic' \in {"granted", "denied"})
       /\ (reqPc' = "notif" /\ reqPc # "notif") => reqPc = "delay"]_vars

\* the notification request of a call is outstanding
C24_Witness == reqPc = "notif" /\ mic \in {"granted", "denied"}

\* C25: while the phase is "permissions", the end of a permission request
\* that has granted the microphone makes the phase idle, the end of one that
\* was denied leaves it "permissions", and the phase leaves "permissions" for
\* idle only.
C25_PermissionGate ==
    [][voiceState = "permissions" =>
          /\ RequestNotificationDone =>
                voiceState' = (IF reqMic THEN "idle" ELSE "permissions")
          /\ voiceState' \in {"permissions", "idle"}]_vars

\* c holds the last n entries of h in their order, or all of h if it has
\* fewer
IsRecent(c, h, n) ==
    /\ Len(c) = (IF Len(h) < n THEN Len(h) ELSE n)
    /\ \A i \in 1..Len(c) : c[i] = h[Len(h) - Len(c) + i]

\* the conversation before its newest entry
Front(h) == SubSeq(h, 1, Len(h) - 1)

\* C26: the context that a turn hands to processMessage holds the
\* ContextCount most recent entries of the conversation as it is at the call,
\* the turn's own user entry counted or not, in their order, or the whole
\* conversation if it has fewer.
C26_ContextIsRecent ==
    [][\A t \in DOMAIN turns :
          (turns[t].pc = "check" /\ turns'[t].pc = "process")
              => \/ IsRecent(turns'[t].context, messages, ContextCount)
                 \/ IsRecent(turns'[t].context, Front(messages), ContextCount)]_vars

Preferred(v, list) ==
    LET named == {i \in DOMAIN list : NamedVoice(list[i])}
        local == {i \in DOMAIN list : LocalEnglishVoice(list[i])}
        english == {i \in DOMAIN list : EnglishVoice(list[i])}
        first(S) == \E i \in S : v = <<list[i]>> /\ \A j \in S : i <= j
    IN  CASE named # {} -> first(named)
          [] named = {} /\ local # {} -> first(local)
          [] named = {} /\ local = {} /\ english # {} -> first(english)
          [] OTHER -> first(DOMAIN list) \/ (list = << >> /\ v = << >>)

\* the list that speak() reads
VoicesRead(y) == IF Len(y.voicesRef) > 0 THEN y.voicesRef ELSE y.getVoices

\* C28: the voice that speak() gives its utterance is the one the preference
\* order makes in the list it reads (named, English and local, English,
\* first), whatever voice it gave before.
C28_VoicePreference ==
    [][(synth' # synth /\ synth'.getVoices = synth.getVoices)
          => Preferred(synth'.voice, VoicesRead(synth))]_vars

\* a local English voice was chosen behind a French voice and an English
\* voice that is not local
C28_Witness ==
    /\ synth.voicesRef =
          << Voice(<<"Amelie">>, <<"fr", "-FR">>, TRUE),
             Voice(<<"Microsoft Zira Online">>, <<"en", "-GB">>, FALSE),
             Voice(<<"Microsoft David">>, <<"en", "-US">>, TRUE) >>
    /\ synth.voice = << Voice(<<"Microsoft David">>, <<"en", "-US">>, TRUE) >>

\* C29: where speech synthesis is supported, stop() leaves isSpeaking false
\* and no utterance of an earlier speak() waiting to start or playing, and a
\* second stop() changes nothing.
C29_StopHaltsAndIsIdempotent ==
    ttsSupported =>
        LET s == stopSpeaking(St)
        IN  /\ ~s.isSpeaking
            /\ stopSpeaking(s) = s
            /\ \A u \in DOMAIN s.utterances :
                  s.utterances[u] \notin {"timer", "queued", "playing"}

C31_UpstreamStatusMapped ==
    \A i \in DOMAIN gateway :
        LET r == gateway[i]
        IN  (r.pc = "done" /\ r.upstream # 0) =>
                LET a == r.response[1]
                IN  /\ r.upstream = 429 => a.status = 429
                    /\ r.upstream = 402 => a.status = 402
                    /\ (~Ok(r.upstream) /\ r.upstream \notin {429, 402})
                          => a.status = 500
                    /\ ~Ok(r.upstream) => a.contentType = "application/json"
                    /\ Ok(r.upstream) <=> a.contentType = "text/event-stream"

\* one request was answered for an upstream 402 and another for an upstream
\* 503
C31_Witness ==
    \E i, j \in DOMAIN gateway :
        /\ gateway[i].pc = "done" /\ gateway[i].upstream = 402
        /\ gateway[i].response[1].status = 402
        /\ gateway[j].pc = "done" /\ gateway[j].upstream = 503
        /\ gateway[j].response[1].status = 500

\* C32: when the promise of a speak() whose utterance was cancelled settles
\* while the phase is listening or thinking (a new operation has started
\* since the stop), the phase does not change.
C32_StalePlaybackIgnored ==
    [][\A u \in DOMAIN utterances :
          (/\ utterances[u] = "cancelled"
           /\ u \in DOMAIN utterances' /\ utterances'[u] = "none"
           /\ voiceState \in {"listening", "thinking"})
          => voiceState' = voiceState]_vars

RECURSIVE Cumulative(_)
\* the text of a result list: what the session has recognised so far
Cumulative(results) ==
    IF results = << >> THEN << >>
    ELSE Head(results).transcript \o Cumulative(Tail(results))

\* C33: an event of a recognition after which the text of its results
\* contains a wake phrase, and before which it did not, calls onWakeWord.
C33_WakePhraseInCumulativeText ==
    [][\A i \in DOMAIN sessions :
          (/\ i \in DOMAIN sessions'
           /\ sessions'[i].results # sessions[i].results
           /\ sessions[i].wakes < MaxWakes
           /\ ~ContainsWakeWord(Cumulative(sessions[i].results))
           /\ ContainsWakeWord(Cumulative(sessions'[i].results)))
          => sessions'[i].wakes = sessions[i].wakes + 1]_vars

\* the text of the final results of a result list, in order
FinalText(results) == Concat(results, 1, TRUE, << >>)

\* C36: when the recognition held by recognitionRef ends in the listening
\* phase with final results, transcript is the text of all its final
\* results; and the user entry of the turn that the transcript effect starts
\* is that transcript.
C36_WholeTranscriptHandedOver ==
    [][/\ \A i \in DOMAIN sessions :
             (/\ i = recognitionRef
              /\ recognitionRef' = -1
              /\ voiceState = "listening"
              /\ FinalText(sessions[i].results) # << >>)
             => transcript' = FinalText(sessions[i].results)
       /\ Len(turns') > Len(turns)
             => messages'[Len(messages')] = [role |-> "user", content |-> transcript]
      ]_vars

\* C34: lastResponse changes only to the response that a turn has just added
\* to the conversation as its assistant entry, and isMuted changes only by
\* handleMuteToggle.
C34_LastResponseAndMutePersist ==
    [][/\ lastResponse' # lastResponse
             => /\ messages' # << >>
                /\ messages'[Len(messages')] =
                      [role |-> "assistant", content |-> lastResponse']
                /\ \E t \in DOMAIN turns :
                      turns[t].pc \in {"check", "process"} /\ turns'[t].pc # turns[t].pc
       /\ isMuted' # isMuted => St' = handleMuteToggle(St)
      ]_vars

\* C35: the timer of a speak() hands its utterance to the engine only if
\* stop() has not been called since that speak(); every caller of stop()
\* (stopEverything, handleMuteToggle, startVoiceInteraction) takes the phase
\* away from speaking, where speakResponse has put it, and with an utterance
\* in its timer nothing else does.
C35_SupersededSpeakIsSilent ==
    [][\A u \in DOMAIN utterances :
          (/\ utterances[u] = "timer"
           /\ u \in DOMAIN utterances' /\ utterances'[u] = "queued")
          => voiceState = "speaking"]_vars

\* C37: the conversation, empty when the component mounted, is a sequence
\* of pairs, a user entry followed by an assistant entry, but for the user
\* entry of the one turn that has not added its assistant entry yet.
C37_EntriesInPairs ==
    /\ \A k \in DOMAIN messages :
          messages[k].role = IF k % 2 = 1 THEN "user" ELSE "assistant"
    /\ Len(messages) % 2 = 1 => ResponderInFlight

\* C38: while the platform grants the microphone, a step never takes
\* permissions.microphone from granted to another value, and so never takes
\* the phase to permissions.
C38_GrantSurvivesRecheck ==
    [][(mic = "granted" /\ osMic = "granted" /\ osMic' = "granted")
          => (mic' = "granted"
              /\ (voiceState # "permissions" => voiceState' # "permissions"))]_vars

\* C39: isRequestingPermissions is true exactly while a flow of
\* requestAllPermissions is in flight.
C39_RequestingWhileInFlight ==
    isRequestingPermissions <=> (reqPc # "none" \/ reqOverlap.pc # "none")

\* C40: the alarm that parsePhoneAction makes of a command in which it has
\* found a time, and that executeAction hands to setNativeAlarm, has an hour
\* in 0..23 and a minute in 0..59.
C40_AlarmTimeInRange ==
    (alarm.set # << >> /\ alarm.action[1].time # << >>)
        => (alarm.set[1].hour \in 0..23 /\ alarm.set[1].minute \in 0..59)

=============================================================================
